---- MODULE Spec2Model ----
(***************************************************************************)
(* ValidationEngine (src/core/validation_engine.py): portal field checks,  *)
(* the cross-source rule dispatcher and status aggregation, run by         *)
(* validate() on one engine shared by several callers.                     *)
(*                                                                         *)
(* Python strings are sequences of tokens (a token is a character or an    *)
(* indivisible piece of text); Python values are records with a type tag.  *)
(***************************************************************************)
EXTENDS Integers, Sequences, FiniteSets, TLC

\* ------------------------------------------------------------------ bounds
MaxFields == 2      \* configured portal fields per configuration
MaxRules == 2       \* configured cross-source rules per configuration
MaxYear == 2026     \* last year the clock can reach

\* names of the fields of portal documents and extracted documents
FieldNames == {"email", "cr_number", "issue_date", "stamped"}
\* document types a caller can supply
DocTypes == {"moc_certificate", "nda"}

\* ------------------------------------------------------------ Python values
NoneVal == [t |-> "none", s |-> <<>>, n |-> 0]
StrVal(s) == [t |-> "str", s |-> s, n |-> 0]
IntVal(n) == [t |-> "int", s |-> <<>>, n |-> n]
BoolVal(b) == [t |-> "bool", s |-> <<>>, n |-> IF b THEN 1 ELSE 0]
\* a list is kept by its length: the code only takes len() and truthiness
ListVal(n) == [t |-> "list", s |-> <<>>, n |-> n]

Digits == <<"0", "1", "2", "3", "4", "5", "6", "7", "8", "9">>

RECURSIVE int_to_str(_)
int_to_str(n) ==
    IF n < 10 THEN <<Digits[n + 1]>>
    ELSE int_to_str(n \div 10) \o <<Digits[(n % 10) + 1]>>

\* str(value)
py_str(v) ==
    CASE v.t = "str" -> v.s
      [] v.t = "int" -> int_to_str(v.n)
      [] v.t = "bool" -> IF v.n = 1 THEN <<"True">> ELSE <<"False">>
      [] v.t = "none" -> <<"None">>
      [] OTHER -> <<"[", int_to_str(v.n)[1], "]">>

\* bool(value): None, "", 0, False and [] are falsy
py_truthy(v) ==
    CASE v.t = "str" -> v.s # <<>>
      [] v.t = "none" -> FALSE
      [] OTHER -> v.n # 0

IsSpace(c) == c = " "

RECURSIVE lstrip(_)
lstrip(s) == IF s # <<>> /\ IsSpace(Head(s)) THEN lstrip(Tail(s)) ELSE s

RECURSIVE rstrip(_)
rstrip(s) ==
    IF s # <<>> /\ IsSpace(s[Len(s)]) THEN rstrip(SubSeq(s, 1, Len(s) - 1)) ELSE s

\* trimming at the front only
lstrip_only(s) == lstrip(s)

\* str.strip()
strip(s) == rstrip(lstrip(s))

\* ------------------------------------------------------------------- regex
\* Patterns are literal text, except that an opening parenthesis is never
\* closed in the patterns used here, so a pattern holding one does not compile.
re_compiles(p) == \A i \in 1..Len(p) : p[i] # "("

\* re.match(p, s) for a pattern that compiles: anchored at the start only
re_match(p, s) == Len(p) <= Len(s) /\ SubSeq(s, 1, Len(p)) = p

\* ----------------------------------------------------------------- results
Optional(x) == [some |-> TRUE, v |-> x]

RuleResult(rule_id, description, severity, status, message, context) ==
    [rule_id |-> rule_id, description |-> description, severity |-> severity,
     status |-> status, message |-> message, context |-> context]

NoContext == {}

\* what one evaluation step gives back: a RuleResult, nothing (None), or an
\* exception leaving the function
Returns(res) == [kind |-> "result", res |-> res, exc |-> "-"]
ReturnsNone ==
    [kind |-> "none", res |-> RuleResult(<<>>, <<>>, "error", "SKIP", <<>>, NoContext),
     exc |-> "-"]
Raises(exc) ==
    [kind |-> "raise", res |-> RuleResult(<<>>, <<>>, "error", "SKIP", <<>>, NoContext),
     exc |-> exc]

\* ---------------------------------------------------- portal field checks
PortalRuleId(prefix, field_name) == <<"PORTAL_FIELD_", prefix, "::", field_name>>

\* the emptiness test without the empty string
is_empty_none_only(raw_value) == raw_value = NoneVal

\* raw_value in (None, "")
is_empty(raw_value) == raw_value = NoneVal \/ raw_value = StrVal(<<>>)

validate_portal_field(field_name, cfg, portal_json) ==
    LET raw_value == portal_json[field_name]
        value_str == py_str(raw_value)
        fail(prefix, description, message) ==
            Returns(RuleResult(PortalRuleId(prefix, field_name),
                               <<field_name, description>>, "error", "FAIL",
                               <<field_name, message>>, NoContext))
    IN  IF is_empty(raw_value)
        THEN IF cfg.required
             THEN fail("REQUIRED", "is required", "missing or empty")
             ELSE ReturnsNone
        ELSE IF cfg.pattern.some /\ cfg.pattern.v # <<>>
                  /\ ~re_compiles(cfg.pattern.v)
        THEN Raises("re.error")
        ELSE IF cfg.pattern.some /\ cfg.pattern.v # <<>>
                  /\ ~re_match(cfg.pattern.v, value_str)
        THEN fail("PATTERN", "must match pattern", "invalid format")
        ELSE IF cfg.allowed_values.some /\ cfg.allowed_values.v # <<>>
                  /\ \A i \in 1..Len(cfg.allowed_values.v) :
                         cfg.allowed_values.v[i] # value_str
        THEN fail("IN_SET", "must be one of allowed values", "not in allowed values")
        ELSE IF cfg.min_length.some /\ Len(value_str) < cfg.min_length.v
        THEN fail("MIN_LEN", "must have at least min_length characters", "too short")
        ELSE IF cfg.max_length.some /\ Len(value_str) > cfg.max_length.v
        THEN fail("MAX_LEN", "must have at most max_length characters", "too long")
        ELSE Returns(RuleResult(PortalRuleId("OK", field_name),
                                <<field_name, "basic validation">>, "warning",
                                "PASS", <<field_name, "passed basic validation">>,
                                NoContext))

\* ------------------------------------------------------------- aggregation
\* aggregation that reads the severity where it should read the status
aggregate_status_by_severity(results) ==
    LET has_fail == \E i \in 1..Len(results) : results[i].status = "FAIL"
        has_warning == \E i \in 1..Len(results) : results[i].severity = "warning"
    IN  IF has_fail THEN "FAIL" ELSE IF has_warning THEN "WARNING" ELSE "PASS"

aggregate_status(results) ==
    LET has_fail == \E i \in 1..Len(results) : results[i].status = "FAIL"
        has_warning == \E i \in 1..Len(results) : results[i].status = "WARNING"
    IN  IF has_fail THEN "FAIL" ELSE IF has_warning THEN "WARNING" ELSE "PASS"

\* --------------------------------------------------------- field resolution
\* a resolution that loses the path
Resolved_no_path(value, path) == [kind |-> "ok", value |-> value, path |-> <<>>, exc |-> "-"]

Resolved(value, path) == [kind |-> "ok", value |-> value, path |-> path, exc |-> "-"]
ResolveRaises(exc) == [kind |-> "raise", value |-> NoneVal, path |-> <<>>, exc |-> exc]

\* a doc_type that is None or "" is falsy
HasDocType(ref) == ref.doc_type.some /\ ref.doc_type.v # ""

\* A document is a mapping; absent keys read as None through .get().  "fields"
\* is absent, a sub-mapping, or None; top holds the other top-level entries.
Doc(fields_kind, fields, top, pages, page_count) ==
    [present |-> TRUE, fields_kind |-> fields_kind, fields |-> fields,
     top |-> top, pages |-> pages, page_count |-> page_count]

NoFields == [f \in FieldNames |-> NoneVal]

\* the {} default of docs_by_type.get(doc_type, {})
EmptyDoc ==
    [present |-> FALSE, fields_kind |-> "absent", fields |-> NoFields,
     top |-> NoFields, pages |-> NoneVal, page_count |-> NoneVal]

get_doc(docs_by_type, doc_type) ==
    IF doc_type \in DOMAIN docs_by_type /\ docs_by_type[doc_type].present
    THEN docs_by_type[doc_type]
    ELSE EmptyDoc

\* doc.get("fields", doc): the sub-mapping when the key is there, else the
\* document itself; a "fields" entry that is None has no .get
namespace_is_mapping(doc) == doc.fields_kind # "none"
namespace(doc) == IF doc.fields_kind = "dict" THEN doc.fields ELSE doc.top

resolve_field(ref, portal_json, docs_by_type) ==
    IF ref.source = "portal"
    THEN Resolved(portal_json[ref.field], <<"portal", ".", ref.field>>)
    ELSE IF ref.source = "doc"
    THEN IF ~HasDocType(ref)
         THEN ResolveRaises("ValueError")
         ELSE LET doc == get_doc(docs_by_type, ref.doc_type.v)
              IN  IF ~namespace_is_mapping(doc)
                  THEN ResolveRaises("AttributeError")
                  ELSE Resolved(namespace(doc)[ref.field],
                                <<ref.doc_type.v, ".", ref.field>>)
    ELSE ResolveRaises("ValueError")

\* ------------------------------------------------------ rule implementations
\* a result whose severity is always error
Result_severity_error(rule, status, message, context) ==
    Returns(RuleResult(rule.id, rule.description, "error", status,
                       <<message>>, context))

\* a result that reports the failure of a warning rule as status WARNING
Result_warning_status(rule, status, message, context) ==
    Returns(RuleResult(rule.id, rule.description, rule.severity,
                       IF status = "FAIL" /\ rule.severity = "warning"
                       THEN "WARNING" ELSE status,
                       <<message>>, context))

Result(rule, status, message, context) ==
    Returns(RuleResult(rule.id, rule.description, rule.severity, status,
                       <<message>>, context))

\* a result whose message is put together from several parts
FormattedResult(rule, status, message, context) ==
    Returns(RuleResult(rule.id, rule.description, rule.severity, status,
                       message, context))

InList(x, list) == \E i \in 1..Len(list) : list[i] = x

rule_equality(rule, portal_json, docs_by_type) ==
    IF ~(rule.left.some /\ rule.right.some)
    THEN Raises("AssertionError")
    ELSE LET l == resolve_field(rule.left.v, portal_json, docs_by_type)
             r == resolve_field(rule.right.v, portal_json, docs_by_type)
         IN  IF l.kind = "raise" THEN Raises(l.exc)
             ELSE IF r.kind = "raise" THEN Raises(r.exc)
             ELSE IF l.value = NoneVal \/ r.value = NoneVal
             THEN Result(rule, "FAIL", "missing values",
                         {[k |-> "left_path", v |-> l.path],
                          [k |-> "right_path", v |-> r.path]})
             ELSE IF strip(py_str(l.value)) = strip(py_str(r.value))
             THEN Result(rule, "PASS", "values match",
                         {[k |-> "left", v |-> py_str(l.value)],
                          [k |-> "right", v |-> py_str(r.value)]})
             ELSE Result(rule, "FAIL", "values differ",
                         {[k |-> "left", v |-> py_str(l.value)],
                          [k |-> "right", v |-> py_str(r.value)]})

rule_in_set(rule, portal_json, docs_by_type) ==
    IF ~(rule.target.some /\ rule.allowed_values.some /\ rule.allowed_values.v # <<>>)
    THEN Raises("AssertionError")
    ELSE LET t == resolve_field(rule.target.v, portal_json, docs_by_type)
         IN  IF t.kind = "raise" THEN Raises(t.exc)
             ELSE IF t.value = NoneVal
             THEN Result(rule, "FAIL", "missing value", NoContext)
             ELSE IF InList(py_str(t.value), rule.allowed_values.v)
             THEN Result(rule, "PASS", "value is allowed", NoContext)
             ELSE Result(rule, "FAIL", "value is not in allowed set", NoContext)

rule_regex(rule, portal_json, docs_by_type) ==
    IF ~(rule.target.some /\ rule.regex.some /\ rule.regex.v # <<>>)
    THEN Raises("AssertionError")
    ELSE LET t == resolve_field(rule.target.v, portal_json, docs_by_type)
             value_str == IF t.value = NoneVal THEN <<>> ELSE py_str(t.value)
         IN  IF t.kind = "raise" THEN Raises(t.exc)
             ELSE IF ~re_compiles(rule.regex.v) THEN Raises("re.error")
             ELSE IF re_match(rule.regex.v, value_str)
             THEN Result(rule, "PASS", "value matches regex", NoContext)
             ELSE Result(rule, "FAIL", "value does not match regex", NoContext)

\* ------------------------------------------------------------ date parsing
\* A date string is a sequence of number tokens and separators.  strptime
\* reads %Y as four digits and %d, %m as one or two digits.
NumTokens ==
    {"2020", "2024", "2025", "2026", "01", "02", "12", "13", "30", "31"}

TokenValue(tok) ==
    CASE tok = "2020" -> 2020 [] tok = "2024" -> 2024 [] tok = "2025" -> 2025
      [] tok = "2026" -> 2026 [] tok = "01" -> 1 [] tok = "02" -> 2
      [] tok = "12" -> 12 [] tok = "13" -> 13 [] tok = "30" -> 30
      [] tok = "31" -> 31 [] OTHER -> 0

IsYearToken(tok) == tok \in NumTokens /\ TokenValue(tok) >= 1000
IsShortToken(tok) == tok \in NumTokens /\ TokenValue(tok) < 100

IsLeap(y) == (y % 4 = 0 /\ y % 100 # 0) \/ y % 400 = 0

DaysInMonth(y, m) ==
    IF m = 2 THEN (IF IsLeap(y) THEN 29 ELSE 28)
    ELSE IF m \in {4, 6, 9, 11} THEN 30 ELSE 31

ValidDate(y, m, d) == m \in 1..12 /\ d >= 1 /\ d <= DaysInMonth(y, m)

DateFormats ==
    << [sep |-> "-", year_first |-> TRUE], [sep |-> "/", year_first |-> FALSE],
       [sep |-> "-", year_first |-> FALSE], [sep |-> ".", year_first |-> FALSE] >>

\* datetime.strptime(value, fmt) succeeds
strptime_ok(value, fmt) ==
    /\ Len(value) = 5
    /\ value[2] = fmt.sep /\ value[4] = fmt.sep
    /\ LET y == IF fmt.year_first THEN value[1] ELSE value[5]
           d == IF fmt.year_first THEN value[5] ELSE value[1]
       IN  /\ IsYearToken(y) /\ IsShortToken(value[3]) /\ IsShortToken(d)
           /\ ValidDate(TokenValue(y), TokenValue(value[3]), TokenValue(d))

strptime(value, fmt) ==
    [year |-> TokenValue(IF fmt.year_first THEN value[1] ELSE value[5]),
     month |-> TokenValue(value[3]),
     day |-> TokenValue(IF fmt.year_first THEN value[5] ELSE value[1])]

NoDate == [year |-> 0, month |-> 0, day |-> 0]

\* parsing that knows the format %Y-%m-%d only
parse_date_iso_only(value) ==
    LET v == strip(value)
    IN  IF strptime_ok(v, DateFormats[1])
        THEN [ok |-> TRUE, date |-> strptime(v, DateFormats[1])]
        ELSE [ok |-> FALSE, date |-> NoDate]

\* the first format that parses wins; ok = FALSE stands for ValueError
parse_date(value) ==
    LET v == strip(value)
        fits == {i \in 1..Len(DateFormats) : strptime_ok(v, DateFormats[i])}
    IN  IF fits = {} THEN [ok |-> FALSE, date |-> NoDate]
        ELSE LET first == CHOOSE i \in fits : \A j \in fits : i <= j
             IN  [ok |-> TRUE, date |-> strptime(v, DateFormats[first])]

Abs(x) == IF x < 0 THEN -x ELSE x

rule_date_within_year(rule, portal_json, docs_by_type, now_year) ==
    IF ~rule.target.some
    THEN Raises("AssertionError")
    ELSE LET t == resolve_field(rule.target.v, portal_json, docs_by_type)
             year_delta == IF rule.year_delta.some THEN rule.year_delta.v ELSE 0
             parsed == parse_date(py_str(t.value))
             diff_years == Abs(now_year - parsed.date.year)
         IN  IF t.kind = "raise" THEN Raises(t.exc)
             ELSE IF ~py_truthy(t.value)
             THEN Result(rule, "FAIL", "is missing", NoContext)
             ELSE IF ~parsed.ok
             THEN Result(rule, "FAIL", "date parse error", NoContext)
             ELSE IF diff_years <= year_delta
             THEN Result(rule, "PASS", "date is within year_delta of now", NoContext)
             ELSE Result(rule, "FAIL", "date is older than year_delta", NoContext)

\* ------------------------------------------------------------- page counts
IsDigit(c) == \E i \in 1..10 : Digits[i] = c
DigitValue(c) == (CHOOSE i \in 1..10 : Digits[i] = c) - 1

RECURSIVE digits_to_int(_)
digits_to_int(s) ==
    IF s = <<>> THEN 0
    ELSE 10 * digits_to_int(SubSeq(s, 1, Len(s) - 1)) + DigitValue(s[Len(s)])

\* int(x) is defined for numbers, booleans and text made of digits
\* (surrounding blanks allowed); anything else is ValueError or TypeError
int_ok(v) ==
    CASE v.t = "str" -> strip(v.s) # <<>> /\ \A i \in 1..Len(strip(v.s)) : IsDigit(strip(v.s)[i])
      [] v.t \in {"int", "bool"} -> TRUE
      [] OTHER -> FALSE

py_int(v) == IF v.t = "str" THEN digits_to_int(strip(v.s)) ELSE v.n

Unbounded == 1000000000

rule_page_count(rule, portal_json, docs_by_type) ==
    IF ~rule.target.some
    THEN Raises("AssertionError")
    ELSE IF ~HasDocType(rule.target.v)
    THEN Raises("ValueError")
    ELSE LET doc == get_doc(docs_by_type, rule.target.v.doc_type.v)
             pages == IF py_truthy(doc.pages) THEN doc.pages ELSE doc.page_count
             casts == pages.t = "list" \/ ~py_truthy(pages) \/ int_ok(pages)
             page_count == IF pages.t = "list" THEN pages.n
                           ELSE IF py_truthy(pages) THEN py_int(pages) ELSE 0
             min_pages == IF rule.min_pages.some /\ rule.min_pages.v # 0
                          THEN rule.min_pages.v ELSE 0
             max_pages == IF rule.max_pages.some /\ rule.max_pages.v # 0
                          THEN rule.max_pages.v ELSE Unbounded
         IN  IF ~casts THEN Raises("ValueError")
             ELSE IF min_pages <= page_count /\ page_count <= max_pages
             THEN FormattedResult(rule, "PASS",
                    <<rule.target.v.doc_type.v, " has ">> \o int_to_str(page_count)
                    \o <<" pages (within [">> \o int_to_str(min_pages) \o <<", ">>
                    \o int_to_str(max_pages) \o <<"])">>, NoContext)
             ELSE FormattedResult(rule, "FAIL",
                    <<rule.target.v.doc_type.v, " has ">> \o int_to_str(page_count)
                    \o <<" pages (expected between ">> \o int_to_str(min_pages)
                    \o <<" and ">> \o int_to_str(max_pages) \o <<")">>, NoContext)

\* ------------------------------------------------------------------- flags
rule_flags_match(rule, portal_json, docs_by_type) ==
    IF ~(rule.target.some /\ rule.flags.some /\ rule.flags.v # <<>>)
    THEN Raises("AssertionError")
    ELSE IF ~HasDocType(rule.target.v)
    THEN Raises("ValueError")
    ELSE LET doc == get_doc(docs_by_type, rule.target.v.doc_type.v)
             fields == namespace(doc)
             mismatches ==
                 {i \in 1..Len(rule.flags.v) :
                     py_truthy(fields[rule.flags.v[i].field]) # rule.flags.v[i].expected}
         IN  IF ~namespace_is_mapping(doc) THEN Raises("AttributeError")
             ELSE IF mismatches = {}
             THEN Result(rule, "PASS", "all required flags present", NoContext)
             ELSE Result(rule, "FAIL", "flag mismatches", NoContext)

\* ---------------------------------------------------- cross-source dispatcher
\* the body of the try block
evaluate_rule(rule, portal_json, docs_by_type, now_year) ==
    CASE rule.rule_type = "equality" -> rule_equality(rule, portal_json, docs_by_type)
      [] rule.rule_type = "in_set" -> rule_in_set(rule, portal_json, docs_by_type)
      [] rule.rule_type = "regex" -> rule_regex(rule, portal_json, docs_by_type)
      [] rule.rule_type = "date_within_year" ->
             rule_date_within_year(rule, portal_json, docs_by_type, now_year)
      [] rule.rule_type = "page_count_between" ->
             rule_page_count(rule, portal_json, docs_by_type)
      [] rule.rule_type = "flags_match" ->
             rule_flags_match(rule, portal_json, docs_by_type)
      [] OTHER -> Result(rule, "SKIP", "unknown rule_type", NoContext)

\* a handler that lets the exception go on
on_exception_reraise(rule, exc) == Raises(exc)

\* a handler that reports under a fixed id instead of the rule's
on_exception_anonymous(rule, exc) ==
    Returns(RuleResult(<<"EXCEPTION">>, rule.description, rule.severity, "FAIL",
                       <<"exception while applying rule", exc>>, NoContext))

\* except Exception: the exception becomes a FAIL result
on_exception(rule, exc) ==
    Returns(RuleResult(rule.id, rule.description, rule.severity, "FAIL",
                       <<"exception while applying rule", exc>>, NoContext))

\* a dispatcher that stamps every result with the year of its evaluation
apply_rule_timestamped(rule, portal_json, docs_by_type, now_year) ==
    LET body == evaluate_rule(rule, portal_json, docs_by_type, now_year)
        out == IF body.kind = "raise" THEN on_exception(rule, body.exc) ELSE body
    IN  [out EXCEPT !.res.message = @ \o int_to_str(now_year)]

apply_rule(rule, portal_json, docs_by_type, now_year) ==
    LET body == evaluate_rule(rule, portal_json, docs_by_type, now_year)
    IN  IF body.kind = "raise" THEN on_exception(rule, body.exc) ELSE body

\* ------------------------------------------------------------ configuration
None == [some |-> FALSE, v |-> <<>>]
NoInt == [some |-> FALSE, v |-> 0]
NoDocType == [some |-> FALSE, v |-> ""]

PortalRef(field) == [source |-> "portal", field |-> field, doc_type |-> NoDocType]
DocRef(doc_type, field) ==
    [source |-> "doc", field |-> field, doc_type |-> Optional(doc_type)]
\* a doc reference written without docType
DocRefNoType(field) == [source |-> "doc", field |-> field, doc_type |-> NoDocType]
NoRef == [some |-> FALSE, v |-> PortalRef("email")]

PortalFieldValidation(required, pattern, allowed_values, min_length, max_length) ==
    [required |-> required, pattern |-> pattern, allowed_values |-> allowed_values,
     min_length |-> min_length, max_length |-> max_length]

Entry(name, cfg) == [name |-> name, cfg |-> cfg]

\* portal field entries configurations are cut from (consecutive entries, so
\* that the names of one configuration differ)
PortalCatalogue ==
    << Entry("email", PortalFieldValidation(TRUE, Optional(<<"a">>), None, NoInt, Optional(1))),
       Entry("cr_number", PortalFieldValidation(FALSE, Optional(<<"1">>),
                 Optional(<< <<"1", "2">> >>), Optional(2), NoInt)),
       Entry("issue_date", PortalFieldValidation(TRUE, None, None, Optional(1), Optional(2))),
       Entry("email", PortalFieldValidation(TRUE, Optional(<<"(">>), None, NoInt, NoInt)),
       Entry("cr_number", PortalFieldValidation(TRUE, None, Optional(<<>>), NoInt, NoInt)),
       Entry("issue_date", PortalFieldValidation(FALSE, Optional(<<>>), None,
                 Optional(2), Optional(2))),
       Entry("email", PortalFieldValidation(TRUE, None, Optional(<< <<"a">>, <<"a", "b">> >>),
                 NoInt, NoInt)),
       Entry("cr_number", PortalFieldValidation(TRUE, Optional(<<"1">>),
                 Optional(<< <<"1", "2">>, <<"1">>, <<"1", "2", "3">> >>),
                 Optional(2), Optional(2))) >>

CrossSourceRule(id, severity, rule_type) ==
    [id |-> id, description |-> <<"rule">> \o id, severity |-> severity,
     rule_type |-> rule_type, left |-> NoRef, right |-> NoRef, target |-> NoRef,
     allowed_values |-> None, regex |-> None, year_delta |-> NoInt,
     min_pages |-> NoInt, max_pages |-> NoInt, flags |-> None]

Flag(field, expected) == [field |-> field, expected |-> expected]

\* cross-source rules configurations are cut from: well-formed and malformed
\* rules of the six kinds, and one of a kind the dispatcher does not know
RuleCatalogue ==
    << [CrossSourceRule(<<"cr_match">>, "error", "equality") EXCEPT
            !.left = Optional(PortalRef("cr_number")),
            !.right = Optional(DocRef("moc_certificate", "cr_number"))],
       [CrossSourceRule(<<"issued_recently">>, "warning", "date_within_year") EXCEPT
            !.target = Optional(DocRef("moc_certificate", "issue_date")),
            !.year_delta = Optional(1)],
       [CrossSourceRule(<<"future_kind">>, "warning", "not_known") EXCEPT
            !.target = Optional(PortalRef("email"))],
       [CrossSourceRule(<<"pages">>, "error", "page_count_between") EXCEPT
            !.target = Optional(DocRef("moc_certificate", "cr_number")),
            !.min_pages = Optional(1), !.max_pages = Optional(5)],
       [CrossSourceRule(<<"no_right">>, "error", "equality") EXCEPT
            !.left = Optional(PortalRef("cr_number"))],
       [CrossSourceRule(<<"email_allowed">>, "warning", "in_set") EXCEPT
            !.target = Optional(PortalRef("email")),
            !.allowed_values = Optional(<< <<"a">>, <<"a", "b">> >>)],
       [CrossSourceRule(<<"no_doc_type">>, "error", "equality") EXCEPT
            !.left = Optional(DocRefNoType("cr_number")),
            !.right = Optional(PortalRef("cr_number"))],
       [CrossSourceRule(<<"cr_format">>, "error", "regex") EXCEPT
            !.target = Optional(DocRef("moc_certificate", "cr_number")),
            !.regex = Optional(<<"1">>)],
       CrossSourceRule(<<"no_target">>, "warning", "in_set"),
       [CrossSourceRule(<<"flags">>, "error", "flags_match") EXCEPT
            !.target = Optional(DocRef("moc_certificate", "stamped")),
            !.flags = Optional(<<Flag("stamped", TRUE), Flag("email", FALSE)>>)],
       [CrossSourceRule(<<"bad_regex">>, "error", "regex") EXCEPT
            !.target = Optional(PortalRef("email")),
            !.regex = Optional(<<"(">>)],
       [CrossSourceRule(<<"issued_this_year">>, "error", "date_within_year") EXCEPT
            !.target = Optional(DocRef("moc_certificate", "issue_date"))],
       [CrossSourceRule(<<"pages_no_type">>, "error", "page_count_between") EXCEPT
            !.target = Optional(DocRefNoType("cr_number")),
            !.min_pages = Optional(1)],
       [CrossSourceRule(<<"no_pages">>, "warning", "page_count_between") EXCEPT
            !.target = Optional(DocRef("nda", "cr_number")),
            !.max_pages = Optional(0)],
       [CrossSourceRule(<<"flags_no_type">>, "error", "flags_match") EXCEPT
            !.target = Optional(DocRefNoType("stamped")),
            !.flags = Optional(<<Flag("stamped", TRUE)>>)],
       [CrossSourceRule(<<"no_flags">>, "error", "flags_match") EXCEPT
            !.target = Optional(DocRef("moc_certificate", "stamped")),
            !.flags = Optional(<<>>)],
       [CrossSourceRule(<<"PORTAL_FIELD_", "OK", "::", "email">>, "error", "in_set") EXCEPT
            !.target = Optional(PortalRef("cr_number")),
            !.allowed_values = Optional(<< <<"1", "2">> >>)] >>

Window(catalogue, first, n) == SubSeq(catalogue, first, first + n - 1)

\* ValidationConfig: the portal fields in insertion order, the rules in order
ValidationConfig(portal_field_validations, cross_source_rules) ==
    [portal_field_validations |-> portal_field_validations,
     cross_source_rules |-> cross_source_rules]

DistinctNames(entries) ==
    \A i, j \in 1..Len(entries) : i # j => entries[i].name # entries[j].name

Configs ==
    {ValidationConfig(Window(PortalCatalogue, f, nf), Window(RuleCatalogue, r, nr)) :
        <<f, nf, r, nr>> \in
            {w \in (1..Len(PortalCatalogue)) \X (0..MaxFields)
                     \X (1..Len(RuleCatalogue)) \X (0..MaxRules) :
                /\ w[1] + w[2] - 1 <= Len(PortalCatalogue)
                /\ w[3] + w[4] - 1 <= Len(RuleCatalogue)
                /\ DistinctNames(Window(PortalCatalogue, w[1], w[2]))}}

\* ------------------------------------------------------------------ inputs
Str(s) == StrVal(s)

PortalDoc(email, cr_number, issue_date) ==
    [f \in FieldNames |->
        CASE f = "email" -> email [] f = "cr_number" -> cr_number
          [] f = "issue_date" -> issue_date [] OTHER -> NoneVal]

Fields(cr_number, issue_date, stamped, email) ==
    [f \in FieldNames |->
        CASE f = "email" -> email [] f = "cr_number" -> cr_number
          [] f = "issue_date" -> issue_date [] OTHER -> stamped]

DocsByType(moc_certificate, nda) ==
    [d \in DocTypes |-> IF d = "nda" THEN nda ELSE moc_certificate]

P1 == PortalDoc(Str(<<"a">>), Str(<<"1", "2">>), Str(<<"a", "b">>))
P2 == PortalDoc(Str(<<"b", "b">>), Str(<<"1">>), Str(<<"a", "b", "c">>))
P3 == PortalDoc(Str(<<"a", "b">>), Str(<<"1", "2", "3">>), Str(<<"a">>))
P4 == PortalDoc(NoneVal, Str(<<"1", "3">>), NoneVal)
P5 == PortalDoc(Str(<<>>), Str(<<>>), Str(<<>>))
P6 == PortalDoc(Str(<<"a">>), IntVal(7), Str(<<"a", "b">>))
P7 == PortalDoc(Str(<<"a">>), NoneVal, Str(<<"a", "b">>))

D0 == DocsByType(EmptyDoc, EmptyDoc)
D1 == DocsByType(
        Doc("dict", Fields(Str(<<" ", "1", "2", " ">>),
                           Str(<<"2025", "-", "01", "-", "01">>), BoolVal(TRUE), NoneVal),
            NoFields, ListVal(3), NoneVal),
        EmptyDoc)
D2 == DocsByType(
        Doc("absent", NoFields,
            Fields(Str(<<"1", "3">>), Str(<<"31", "/", "12", "/", "2024">>),
                   BoolVal(FALSE), NoneVal),
            NoneVal, Str(<<"3">>)),
        EmptyDoc)
D3 == DocsByType(Doc("none", NoFields, NoFields, NoneVal, Str(<<"x">>)), EmptyDoc)
D4 == DocsByType(
        Doc("dict", Fields(NoneVal, Str(<<"2020", "-", "01", "-", "01">>),
                           Str(<<"y">>), Str(<<"a">>)),
            NoFields, ListVal(0), IntVal(2)),
        Doc("absent", NoFields, NoFields, ListVal(3), NoneVal))
D5 == DocsByType(
        Doc("absent", NoFields,
            Fields(IntVal(12), Str(<<"12", ".", "13", ".", "2025">>), NoneVal, NoneVal),
            NoneVal, IntVal(7)),
        EmptyDoc)

\* the (portal document, docs_by_type) pairs a caller passes to validate()
Inputs ==
    { <<P1, D0>>, <<P1, D1>>, <<P1, D2>>, <<P1, D4>>, <<P2, D1>>, <<P2, D3>>,
      <<P3, D2>>, <<P3, D5>>, <<P4, D1>>, <<P4, D4>>, <<P5, D0>>, <<P5, D5>>,
      <<P6, D1>>, <<P6, D5>>, <<P7, D0>>, <<P7, D1>> }

\* --------------------------------------------------------------- validate()
\* a list that survives from the caller's previous call
fresh_results_stale(stale) == stale

\* a list that keeps the first result of the previous call
fresh_results_keep_first(stale) == IF stale = <<>> THEN <<>> ELSE <<stale[1]>>

\* results = []
fresh_results(stale) == <<>>

\* insertion at the front, and appending twice
prepend_result(results, res) == <<res>> \o results
append_result_twice(results, res) == Append(Append(results, res), res)

\* results.append(res)
append_result(results, res) == Append(results, res)

ValidationReport(summary_status, results) ==
    [summary_status |-> summary_status, results |-> results]

\* validate() run from start to end by one caller; nows[i] is the year the
\* clock shows when rule i is applied
RECURSIVE portal_loop(_, _, _)
portal_loop(entries, portal_json, acc) ==
    IF entries = <<>> THEN [kind |-> "ok", results |-> acc]
    ELSE LET res == validate_portal_field(Head(entries).name, Head(entries).cfg,
                                          portal_json)
         IN  IF res.kind = "raise" THEN [kind |-> "raise", results |-> acc]
             ELSE portal_loop(Tail(entries), portal_json,
                              IF res.kind = "none" THEN acc ELSE acc \o <<res.res>>)

RECURSIVE rules_loop(_, _, _, _, _)
rules_loop(rules, portal_json, docs_by_type, nows, acc) ==
    IF rules = <<>> THEN [kind |-> "ok", results |-> acc]
    ELSE LET res == apply_rule(Head(rules), portal_json, docs_by_type, Head(nows))
         IN  IF res.kind = "raise" THEN [kind |-> "raise", results |-> acc]
             ELSE rules_loop(Tail(rules), portal_json, docs_by_type, Tail(nows),
                             acc \o <<res.res>>)

NoReport == ValidationReport("-", <<>>)

validate(cfg, portal_json, docs_by_type, nows) ==
    LET first == portal_loop(cfg.portal_field_validations, portal_json, <<>>)
        second == rules_loop(cfg.cross_source_rules, portal_json, docs_by_type,
                             nows, first.results)
    IN  IF first.kind = "raise" \/ second.kind = "raise"
        THEN [kind |-> "raise", report |-> NoReport]
        ELSE [kind |-> "return",
              report |-> ValidationReport(aggregate_status(second.results),
                                          second.results)]

\* ---------------------------------------------------------- per-field view
\* rule_id.startswith("PORTAL_FIELD_")
starts_with_portal_field(rule_id) == Len(rule_id) >= 1 /\ rule_id[1] = "PORTAL_FIELD_"

\* position of the first "::" of a rule id, 0 when it has none
find_separator(rule_id) ==
    IF \E i \in 1..Len(rule_id) : rule_id[i] = "::"
    THEN CHOOSE i \in 1..Len(rule_id) :
            rule_id[i] = "::" /\ \A j \in 1..(i - 1) : rule_id[j] # "::"
    ELSE 0

\* rule_id.split("::", 1): one part without separator, two parts with one
split_once(rule_id) ==
    LET i == find_separator(rule_id)
    IN  IF i = 0 THEN <<rule_id>>
        ELSE <<SubSeq(rule_id, 1, i - 1), SubSeq(rule_id, i + 1, Len(rule_id))>>

\* the reason looked up by the whole rule id instead of its prefix
failure_reason_from_whole_id(rule_id) ==
    CASE rule_id = <<"PORTAL_FIELD_", "REQUIRED">> -> "MISSING_REQUIRED"
      [] rule_id = <<"PORTAL_FIELD_", "PATTERN">> -> "PATTERN_MISMATCH"
      [] rule_id = <<"PORTAL_FIELD_", "IN_SET">> -> "INVALID_VALUE"
      [] rule_id = <<"PORTAL_FIELD_", "MIN_LEN">> -> "MIN_LENGTH"
      [] rule_id = <<"PORTAL_FIELD_", "MAX_LEN">> -> "MAX_LENGTH"
      [] OTHER -> "GENERIC_FAIL"

failure_reason_from_rule_id(rule_id) ==
    LET prefix == split_once(rule_id)[1]
    IN  CASE prefix = <<"PORTAL_FIELD_", "REQUIRED">> -> "MISSING_REQUIRED"
          [] prefix = <<"PORTAL_FIELD_", "PATTERN">> -> "PATTERN_MISMATCH"
          [] prefix = <<"PORTAL_FIELD_", "IN_SET">> -> "INVALID_VALUE"
          [] prefix = <<"PORTAL_FIELD_", "MIN_LEN">> -> "MIN_LENGTH"
          [] prefix = <<"PORTAL_FIELD_", "MAX_LEN">> -> "MAX_LENGTH"
          [] OTHER -> "GENERIC_FAIL"

NoReason == [some |-> FALSE, v |-> ""]

FieldValidationResult(field_name, value, is_valid, failure_reason) ==
    [field_name |-> field_name, value |-> value, is_valid |-> is_valid,
     failure_reason |-> failure_reason]

\* portal_json.get(field_name), the field name being the text after "::"
portal_get(portal_json, field_name) ==
    IF Len(field_name) = 1 /\ field_name[1] \in FieldNames
    THEN portal_json[field_name[1]]
    ELSE NoneVal

\* the FieldValidationResult built for one accepted result
field_result(rule_res, portal_json) ==
    LET field_name == split_once(rule_res.rule_id)[2]
        raw_val == portal_get(portal_json, field_name)
        value_str == IF raw_val = NoneVal THEN None ELSE Optional(py_str(raw_val))
    IN  IF rule_res.status = "PASS"
        THEN FieldValidationResult(field_name, value_str, TRUE, NoReason)
        ELSE FieldValidationResult(field_name, value_str, FALSE,
                                   Optional(failure_reason_from_rule_id(rule_res.rule_id)))

\* by_field[field_name] = ...: a key keeps the place of its first insertion
set_item(by_field, item) ==
    IF \E i \in 1..Len(by_field) : by_field[i].field_name = item.field_name
    THEN [i \in 1..Len(by_field) |->
            IF by_field[i].field_name = item.field_name THEN item ELSE by_field[i]]
    ELSE Append(by_field, item)

RECURSIVE field_results_loop(_, _, _)
field_results_loop(rule_results, portal_json, by_field) ==
    IF rule_results = <<>> THEN by_field
    ELSE LET rule_res == Head(rule_results)
         IN  field_results_loop(Tail(rule_results), portal_json,
                IF ~starts_with_portal_field(rule_res.rule_id) THEN by_field
                ELSE IF Len(split_once(rule_res.rule_id)) # 2 THEN by_field
                ELSE set_item(by_field, field_result(rule_res, portal_json)))

portal_report_to_field_results(rep, portal_json) ==
    field_results_loop(rep.results, portal_json, <<>>)

SupplierValidationResponse(supplier_id, field_results) ==
    [supplier_id |-> supplier_id, results |-> field_results]

\* ---------------------------------------------------------- request handler
SupplierIds == {"s1", "s2"}

\* the payloads of a request; the handler passes no documents to the engine
Payloads == { <<p, D0>> : p \in {P1, P2, P3, P4, P5, P6, P7} }

NoResponse == SupplierValidationResponse("-", <<>>)

HandlerState(stage, supplier_id, response, writes, write_failed, status, body) ==
    [stage |-> stage, supplier_id |-> supplier_id, response |-> response,
     writes |-> writes, write_failed |-> write_failed, status |-> status,
     body |-> body]

NoRequest == HandlerState("idle", "-", NoResponse, 0, FALSE, 0, None)

\* what the client receives: a status code and, with 200, the response
Http(status, body) == [status |-> status, body |-> body]

\* except Exception: raise HTTPException(status_code=500)
on_write_failure(response) == Http(500, None)

\* return response
on_write_success(response) == Http(200, Optional(response))

\* ------------------------------------------------------------ state machine
Callers == {1, 2}

VARIABLES
    config,        \* the engine's ValidationConfig, set at construction
    now_year,      \* the year datetime.utcnow() shows
    pc,            \* per caller: where its validate() call stands
    portal_json,   \* per caller: argument of the call
    docs_by_type,  \* per caller: argument of the call
    idx,           \* per caller: position of the running loop
    results,       \* per caller: the local list results
    now_reads,     \* per caller: the year each applied rule saw
    report,        \* per caller: the ValidationReport the call returned
    handler        \* per caller: the request handler validate_portal_fields

vars == <<config, now_year, pc, portal_json, docs_by_type, idx, results,
          now_reads, report, handler>>

InitWith(configs) ==
    /\ config \in configs
    /\ now_year = MaxYear - 1
    /\ pc = [t \in Callers |-> "idle"]
    /\ portal_json = [t \in Callers |-> P5]
    /\ docs_by_type = [t \in Callers |-> D0]
    /\ idx = [t \in Callers |-> 0]
    /\ results = [t \in Callers |-> <<>>]
    /\ now_reads = [t \in Callers |-> <<>>]
    /\ report = [t \in Callers |-> NoReport]
    /\ handler = [t \in Callers |-> NoRequest]

Init == InitWith(Configs)

\* the new year arrives
Tick ==
    /\ now_year < MaxYear
    /\ now_year' = now_year + 1
    /\ UNCHANGED <<config, pc, portal_json, docs_by_type, idx, results,
                   now_reads, report, handler>>

\* validate(portal_json, docs_by_type) is entered
enter_validate(t, inputs) ==
    /\ pc[t] \in {"idle", "returned", "raised_in_portal", "raised_in_rules"}
    /\ \E in \in inputs :
          /\ portal_json' = [portal_json EXCEPT ![t] = in[1]]
          /\ docs_by_type' = [docs_by_type EXCEPT ![t] = in[2]]
    /\ results' = [results EXCEPT ![t] = fresh_results(results[t])]
    /\ now_reads' = [now_reads EXCEPT ![t] = <<>>]
    /\ report' = [report EXCEPT ![t] = NoReport]
    /\ idx' = [idx EXCEPT ![t] = 1]
    /\ pc' = [pc EXCEPT ![t] = "portal"]
    /\ UNCHANGED <<config, now_year>>

\* a caller of the engine enters validate(portal_json, docs_by_type)
Call(t, inputs) ==
    /\ enter_validate(t, inputs)
    /\ UNCHANGED handler

\* one turn of the loop over portal_field_validations
PortalStep(t) ==
    /\ pc[t] = "portal"
    /\ idx[t] <= Len(config.portal_field_validations)
    /\ LET entry == config.portal_field_validations[idx[t]]
           res == validate_portal_field(entry.name, entry.cfg, portal_json[t])
       IN  /\ pc' = [pc EXCEPT ![t] =
                        IF res.kind = "raise" THEN "raised_in_portal" ELSE "portal"]
           /\ results' = [results EXCEPT ![t] =
                        IF res.kind = "result" THEN append_result(results[t], res.res)
                        ELSE results[t]]
           /\ idx' = [idx EXCEPT ![t] = IF res.kind = "raise" THEN idx[t] ELSE idx[t] + 1]
    /\ UNCHANGED <<config, now_year, portal_json, docs_by_type, now_reads, report,
                   handler>>

\* the portal loop is over, the rules loop starts
PortalDone(t) ==
    /\ pc[t] = "portal"
    /\ idx[t] > Len(config.portal_field_validations)
    /\ pc' = [pc EXCEPT ![t] = "rules"]
    /\ idx' = [idx EXCEPT ![t] = 1]
    /\ UNCHANGED <<config, now_year, portal_json, docs_by_type, results,
                   now_reads, report, handler>>

\* the year datetime.utcnow() gives a rule that asks for it
read_clock(rule, year) == IF rule.rule_type = "date_within_year" THEN year ELSE 0

\* one turn of the loop over cross_source_rules
RuleStep(t) ==
    /\ pc[t] = "rules"
    /\ idx[t] <= Len(config.cross_source_rules)
    /\ LET rule == config.cross_source_rules[idx[t]]
           res == apply_rule(rule, portal_json[t], docs_by_type[t], now_year)
       IN  /\ pc' = [pc EXCEPT ![t] =
                        IF res.kind = "raise" THEN "raised_in_rules" ELSE "rules"]
           /\ results' = [results EXCEPT ![t] =
                        IF res.kind = "result" THEN append_result(results[t], res.res)
                        ELSE results[t]]
           /\ now_reads' = [now_reads EXCEPT ![t] =
                        Append(now_reads[t], read_clock(rule, now_year))]
           /\ idx' = [idx EXCEPT ![t] = IF res.kind = "raise" THEN idx[t] ELSE idx[t] + 1]
    /\ UNCHANGED <<config, now_year, portal_json, docs_by_type, report, handler>>

\* aggregation and return
Return(t) ==
    /\ pc[t] = "rules"
    /\ idx[t] > Len(config.cross_source_rules)
    /\ report' = [report EXCEPT ![t] =
                    ValidationReport(aggregate_status(results[t]), results[t])]
    /\ pc' = [pc EXCEPT ![t] = "returned"]
    /\ UNCHANGED <<config, now_year, portal_json, docs_by_type, idx, results,
                   now_reads, handler>>

\* one caller at a time
Next ==
    \/ Tick
    \/ Call(1, Inputs)
    \/ PortalStep(1)
    \/ PortalDone(1)
    \/ RuleStep(1)
    \/ Return(1)

Spec == Init /\ [][Next]_vars

\* Two callers share the engine; their steps interleave freely.
ConcConfigs ==
    {c \in Configs : /\ Len(c.portal_field_validations) = 1
                     /\ Len(c.cross_source_rules) = MaxRules}

ConcInputs == { <<P1, D1>>, <<P1, D4>>, <<P2, D3>>, <<P4, D1>>, <<P6, D5>> }

InitConc == InitWith(ConcConfigs)

NextConc ==
    \/ Tick
    \/ \E t \in Callers :
          \/ Call(t, ConcInputs)
          \/ PortalStep(t)
          \/ PortalDone(t)
          \/ RuleStep(t)
          \/ Return(t)

SpecConc == InitConc /\ [][NextConc]_vars

\* The request handler validate_portal_fields of the API. The engine's
\* validate() runs inside it, step by step as above.
\* a request arrives: the handler calls validate_portal_fields_for_supplier
Request(t) ==
    /\ handler[t].stage \in {"idle", "responded"}
    /\ enter_validate(t, Payloads)
    /\ \E sid \in SupplierIds :
          handler' = [handler EXCEPT ![t] =
                        HandlerState("validating", sid, NoResponse, 0, FALSE, 0, None)]

\* validate() has returned: the report is converted to the per-field view
Convert(t) ==
    /\ handler[t].stage = "validating"
    /\ pc[t] = "returned"
    /\ handler' = [handler EXCEPT ![t] =
          [@ EXCEPT !.stage = "computed",
                    !.response = SupplierValidationResponse(
                                    handler[t].supplier_id,
                                    portal_report_to_field_results(report[t],
                                                                   portal_json[t]))]]
    /\ UNCHANGED <<config, now_year, pc, portal_json, docs_by_type, idx, results,
                   now_reads, report>>

\* validate() has raised: nothing in the handler catches it, the framework
\* answers with a server error
Unhandled(t) ==
    /\ handler[t].stage = "validating"
    /\ pc[t] \in {"raised_in_portal", "raised_in_rules"}
    /\ handler' = [handler EXCEPT ![t] =
          [@ EXCEPT !.stage = "responded", !.status = 500, !.body = None]]
    /\ UNCHANGED <<config, now_year, pc, portal_json, docs_by_type, idx, results,
                   now_reads, report>>

\* write_portal_field_results is called; it returns or raises, and the
\* handler answers accordingly
Write(t) ==
    /\ handler[t].stage = "computed"
    /\ \E failed \in BOOLEAN :
          LET http == IF failed THEN on_write_failure(handler[t].response)
                      ELSE on_write_success(handler[t].response)
          IN  handler' = [handler EXCEPT ![t] =
                [@ EXCEPT !.stage = "responded", !.writes = @ + 1,
                          !.write_failed = failed, !.status = http.status,
                          !.body = http.body]]
    /\ UNCHANGED <<config, now_year, pc, portal_json, docs_by_type, idx, results,
                   now_reads, report>>

NextApi ==
    \/ Tick
    \/ Request(1)
    \/ PortalStep(1)
    \/ PortalDone(1)
    \/ RuleStep(1)
    \/ Return(1)
    \/ Convert(1)
    \/ Unhandled(1)
    \/ Write(1)

SpecApi == Init /\ [][NextApi]_vars

\* ================================================================ properties
Fields_(cfg) == cfg.portal_field_validations
Rules_(cfg) == cfg.cross_source_rules

InCall(t) == pc[t] # "idle"

\* portal fields the call of t has gone through
FieldsSeen(t) ==
    IF pc[t] \in {"rules", "returned", "raised_in_rules"}
    THEN Len(Fields_(config))
    ELSE IF pc[t] \in {"portal", "raised_in_portal"} THEN idx[t] - 1 ELSE 0

\* cross-source rules the call of t has applied
RulesApplied(t) ==
    IF pc[t] = "returned" THEN Len(Rules_(config))
    ELSE IF pc[t] \in {"rules", "raised_in_rules"} THEN idx[t] - 1 ELSE 0

\* number of results the portal loop of t has appended
PortalPart(t) == Len(results[t]) - RulesApplied(t)

PortalPrefixes == {"REQUIRED", "PATTERN", "IN_SET", "MIN_LEN", "MAX_LEN", "OK"}

\* rule_id starts with PORTAL_FIELD_ and ends with ::<field_name>
IsPortalIdOf(rule_id, field_name) ==
    /\ Len(rule_id) >= 3
    /\ rule_id[1] = "PORTAL_FIELD_"
    /\ rule_id[Len(rule_id) - 1] = "::"
    /\ rule_id[Len(rule_id)] = field_name

\* positions, within the portal part of t's results, of the results for a field
ResultsOf(t, field_name) ==
    {i \in 1..Len(results[t]) :
        i <= PortalPart(t) /\ IsPortalIdOf(results[t][i].rule_id, field_name)}

HasStatus(rs, status) == \E i \in 1..Len(rs) : rs[i].status = status

\* C1: the summary status of a returned report is FAIL iff some result is
\* FAIL, else WARNING iff some result is WARNING, else PASS; SKIP results and
\* severities play no part.
C1_SummaryFollowsStatuses ==
    \A t \in Callers :
        pc[t] = "returned" =>
            LET rs == report[t].results
                summary == report[t].summary_status
            IN  /\ summary \in {"FAIL", "WARNING", "PASS"}
                /\ summary = "FAIL" <=> HasStatus(rs, "FAIL")
                /\ summary = "WARNING" <=>
                       (~HasStatus(rs, "FAIL") /\ HasStatus(rs, "WARNING"))
                /\ summary = "PASS" <=>
                       (~HasStatus(rs, "FAIL") /\ ~HasStatus(rs, "WARNING"))

\* a returned report with a SKIP result and a PASS result of severity
\* warning, summarised as PASS
C1_Witness ==
    \E t \in Callers :
        /\ pc[t] = "returned"
        /\ report[t].summary_status = "PASS"
        /\ HasStatus(report[t].results, "SKIP")
        /\ \E i \in 1..Len(report[t].results) :
              /\ report[t].results[i].status = "PASS"
              /\ report[t].results[i].severity = "warning"

\* the evaluation of rule j in the call of t raised
RuleRaised(t, j) ==
    evaluate_rule(Rules_(config)[j], portal_json[t], docs_by_type[t],
                  now_reads[t][j]).kind = "raise"

\* C2: the dispatcher never raises: every applied rule, malformed or not,
\* has added exactly one result, and the result is FAIL whenever the
\* evaluation of the rule raised.
C2_DispatcherNeverRaises ==
    \A t \in Callers :
        /\ pc[t] # "raised_in_rules"
        /\ pc[t] \in {"rules", "returned"} =>
              /\ Len(results[t]) =
                    Len(portal_loop(Fields_(config), portal_json[t], <<>>).results)
                    + RulesApplied(t)
              /\ Len(now_reads[t]) = RulesApplied(t)
              /\ \A j \in 1..RulesApplied(t) :
                    RuleRaised(t, j) =>
                        results[t][PortalPart(t) + j].status = "FAIL"

\* a page_count that cannot be cast to an integer, reported as FAIL
C2_Witness ==
    \E t \in Callers :
        /\ pc[t] = "returned"
        /\ \E j \in 1..Len(Rules_(config)) :
              /\ Rules_(config)[j].rule_type = "page_count_between"
              /\ HasDocType(Rules_(config)[j].target.v)
              /\ RuleRaised(t, j)
              /\ report[t].results[PortalPart(t) + j].status = "FAIL"

\* C3: validate() always returns a report: no exception of a configured
\* check leaves validate().
C3_ValidateAlwaysReturns ==
    \A t \in Callers : pc[t] \notin {"raised_in_portal", "raised_in_rules"}

FieldPosition(name) ==
    CHOOSE i \in 1..Len(Fields_(config)) : Fields_(config)[i].name = name

\* fields of the configuration whose check gives a result for portal_json
Producing(t) ==
    {i \in 1..Len(Fields_(config)) :
        validate_portal_field(Fields_(config)[i].name, Fields_(config)[i].cfg,
                              portal_json[t]).kind = "result"}

\* C4: a returned report holds the portal results first, in the order of the
\* configured fields and only for the fields that gave a result, then one
\* result per configured rule in the order of the rules.
C4_ReportOrder ==
    \A t \in Callers :
        pc[t] = "returned" =>
            LET rs == report[t].results
                k == Len(rs) - Len(Rules_(config))
            IN  /\ k = Cardinality(Producing(t))
                /\ \A i \in 1..k :
                      \E p \in Producing(t) :
                          IsPortalIdOf(rs[i].rule_id, Fields_(config)[p].name)
                /\ \A i, j \in 1..k :
                      i < j => FieldPosition(rs[i].rule_id[4])
                                   < FieldPosition(rs[j].rule_id[4])
                /\ \A j \in 1..Len(Rules_(config)) :
                      rs[k + j].rule_id = Rules_(config)[j].id

\* two portal results followed by two rule results
C4_Witness ==
    \E t \in Callers :
        /\ pc[t] = "returned"
        /\ Cardinality(Producing(t)) = 2
        /\ Len(Rules_(config)) = 2
        /\ Len(report[t].results) = 4

FailsPattern(cfg, value_str) ==
    cfg.pattern.some /\ ~re_match(cfg.pattern.v, value_str)
FailsAllowed(cfg, value_str) ==
    cfg.allowed_values.some /\ ~InList(value_str, cfg.allowed_values.v)
FailsMin(cfg, value_str) == cfg.min_length.some /\ Len(value_str) < cfg.min_length.v
FailsMax(cfg, value_str) == cfg.max_length.some /\ Len(value_str) > cfg.max_length.v

AbsentOrEmpty(v) == v = NoneVal \/ (v.t = "str" /\ v.s = <<>>)

\* C6: a field seen with an absent, None or empty value has no result at all
\* when it is not required, whatever else is configured, and exactly one
\* result, FAIL with PORTAL_FIELD_REQUIRED::<field>, when it is required.
C6_EmptyValue ==
    \A t \in Callers :
        \A p \in 1..FieldsSeen(t) :
            LET e == Fields_(config)[p]
            IN  AbsentOrEmpty(portal_json[t][e.name]) =>
                    IF e.cfg.required
                    THEN \E i \in 1..Len(results[t]) :
                            /\ ResultsOf(t, e.name) = {i}
                            /\ results[t][i].rule_id = PortalRuleId("REQUIRED", e.name)
                            /\ results[t][i].status = "FAIL"
                    ELSE ResultsOf(t, e.name) = {}

\* an optional field with pattern, allowed values and minimum length
\* configured, seen with the empty string, and no result for it
C6_Witness ==
    \E t \in Callers :
        \E p \in 1..FieldsSeen(t) :
            LET e == Fields_(config)[p]
            IN  /\ pc[t] = "returned"
                /\ ~e.cfg.required
                /\ e.cfg.pattern.some /\ e.cfg.allowed_values.some /\ e.cfg.min_length.some
                /\ portal_json[t][e.name] = StrVal(<<>>)
                /\ ResultsOf(t, e.name) = {}

\* the rule id prefix the fixed order of checks gives for a present value
FirstFailing(cfg, value_str) ==
    IF FailsPattern(cfg, value_str) THEN "PATTERN"
    ELSE IF FailsAllowed(cfg, value_str) THEN "IN_SET"
    ELSE IF FailsMin(cfg, value_str) THEN "MIN_LEN"
    ELSE IF FailsMax(cfg, value_str) THEN "MAX_LEN"
    ELSE "OK"

\* C7: the result emitted for a present value carries the id of the first
\* failing check in the order pattern, allowed values, min length, max
\* length, with status FAIL; it is PORTAL_FIELD_OK with status PASS iff no
\* configured check fails.
C7_FirstFailingCheck ==
    \A t \in Callers :
        \A p \in 1..FieldsSeen(t) :
            LET e == Fields_(config)[p]
                value_str == py_str(portal_json[t][e.name])
                expected == FirstFailing(e.cfg, value_str)
            IN  ~AbsentOrEmpty(portal_json[t][e.name]) =>
                    \A i \in ResultsOf(t, e.name) :
                        /\ results[t][i].rule_id = PortalRuleId(expected, e.name)
                        /\ results[t][i].status = IF expected = "OK" THEN "PASS" ELSE "FAIL"

\* C8: every result carries the id of its configuration entry: a portal
\* result <PREFIX>::<field> with one of the six prefixes and a configured
\* field, a rule result the configured id of the rule at its position, also
\* when it is an exception turned into FAIL or a SKIP.
C8_RuleIdsTraceable ==
    \A t \in Callers :
        InCall(t) =>
            /\ PortalPart(t) >= 0
            /\ \A i \in 1..PortalPart(t) :
                  \E prefix \in PortalPrefixes, p \in 1..Len(Fields_(config)) :
                      results[t][i].rule_id = PortalRuleId(prefix, Fields_(config)[p].name)
            /\ \A j \in 1..RulesApplied(t) :
                  results[t][PortalPart(t) + j].rule_id = Rules_(config)[j].id

\* a report with a SKIP result and an exception turned into FAIL
C8_Witness ==
    \E t \in Callers :
        /\ pc[t] = "returned"
        /\ \E j, k \in 1..Len(Rules_(config)) :
              /\ report[t].results[PortalPart(t) + j].status = "SKIP"
              /\ RuleRaised(t, k)
              /\ report[t].results[PortalPart(t) + k].rule_id = Rules_(config)[k].id

Finished(t) == pc[t] \in {"returned", "raised_in_portal", "raised_in_rules"}

\* the clock showed the same year to every rule of the calls of t and u
SameYear(t, u) ==
    \E y \in (MaxYear - 1)..MaxYear :
        \A v \in {t, u} : \A j \in 1..Len(now_reads[v]) : now_reads[v][j] \in {0, y}

\* C9: two calls on the engine with the same portal document and the same
\* docs_by_type, made in the same year, end the same way and return the same
\* report.
C9_Deterministic ==
    \A t, u \in Callers :
        ( /\ Finished(t) /\ Finished(u)
          /\ portal_json[t] = portal_json[u]
          /\ docs_by_type[t] = docs_by_type[u]
          /\ SameYear(t, u) )
        => (pc[t] = pc[u] /\ report[t] = report[u])

\* two returned calls with the same arguments, a date rule among the rules
C9_Witness ==
    /\ pc[1] = "returned" /\ pc[2] = "returned"
    /\ portal_json[1] = portal_json[2] /\ docs_by_type[1] = docs_by_type[2]
    /\ SameYear(1, 2)
    /\ \E j \in 1..Len(now_reads[1]) : now_reads[1][j] # 0
    /\ report[1] = report[2]
    /\ Len(report[1].results) >= 2

\* C10: whatever the interleaving with the other caller, a finished call has
\* the outcome validate() has when run alone on the configuration and the
\* arguments as they stand.
C10_SameAsAlone ==
    \A t \in Callers :
        Finished(t) =>
            LET alone == validate(config, portal_json[t], docs_by_type[t], now_reads[t])
            IN  /\ pc[t] = "returned" <=> alone.kind = "return"
                /\ report[t] = alone.report

\* caller 1 has returned while caller 2, with other arguments, is in its
\* rules loop
C10_Witness ==
    /\ pc[1] = "returned" /\ pc[2] = "rules" /\ idx[2] = 2
    /\ portal_json[1] # portal_json[2]
    /\ Len(report[1].results) >= 2

\* ------------------------------------------------------------ per-field view
\* the response of t's request has been computed and not yet been discarded
ViewReady(t) ==
    \/ handler[t].stage = "computed"
    \/ handler[t].stage = "responded" /\ handler[t].writes > 0

View(t) == handler[t].response.results

\* the reason code the prefix of a portal rule id stands for
ReasonOfPrefix(prefix) ==
    CASE prefix = "REQUIRED" -> "MISSING_REQUIRED"
      [] prefix = "PATTERN" -> "PATTERN_MISMATCH"
      [] prefix = "IN_SET" -> "INVALID_VALUE"
      [] prefix = "MIN_LEN" -> "MIN_LENGTH"
      [] prefix = "MAX_LEN" -> "MAX_LENGTH"
      [] OTHER -> "GENERIC_FAIL"

\* positions of the reported results whose id is PORTAL_FIELD_<x>::<field_name>
Surfaced(t, field_name) ==
    {i \in 1..Len(report[t].results) :
        LET id == report[t].results[i].rule_id
        IN  Len(id) = 4 /\ id[1] = "PORTAL_FIELD_" /\ id[3] = "::"
            /\ <<id[4]>> = field_name}

Last(S) == CHOOSE i \in S : \A j \in S : j <= i

\* C11: every entry of the per-field view stands for a reported portal
\* result of its field: is_valid with no failure_reason when that result is
\* PASS, otherwise not is_valid with the reason its rule-id prefix stands for
\* (MISSING_REQUIRED, PATTERN_MISMATCH, INVALID_VALUE, MIN_LENGTH, MAX_LENGTH,
\* and GENERIC_FAIL for every other prefix).
C11_ViewMapping ==
    \A t \in Callers :
        ViewReady(t) =>
            \A k \in 1..Len(View(t)) :
                LET e == View(t)[k]
                    from == Surfaced(t, e.field_name)
                IN  /\ from # {}
                    /\ LET r == report[t].results[Last(from)]
                       IN  IF r.status = "PASS"
                           THEN e.is_valid /\ e.failure_reason = NoReason
                           ELSE /\ ~e.is_valid
                                /\ e.failure_reason = Optional(ReasonOfPrefix(r.rule_id[2]))

\* a view with a valid entry, a PATTERN_MISMATCH entry and a GENERIC_FAIL entry
C11_Witness ==
    /\ ViewReady(1)
    /\ \E k \in 1..Len(View(1)) :
          View(1)[k].is_valid /\ View(1)[k].failure_reason = NoReason
    /\ \E k \in 1..Len(View(1)) :
          ~View(1)[k].is_valid
          /\ View(1)[k].failure_reason \in {Optional("PATTERN_MISMATCH"),
                                            Optional("GENERIC_FAIL")}

\* C12: the per-field view holds exactly one entry for each portal field the
\* portal loop produced a result for, and each entry reflects that result: no
\* result of a cross-source rule adds an entry or replaces one.
C12_ViewOnlyFromPortalChecks ==
    \A t \in Callers :
        ViewReady(t) =>
            /\ Len(View(t)) = Cardinality({f \in FieldNames : ResultsOf(t, f) # {}})
            /\ \A k \in 1..Len(View(t)) :
                  LET e == View(t)[k]
                  IN  \E i \in 1..PortalPart(t) :
                         /\ IsPortalIdOf(results[t][i].rule_id, e.field_name[1])
                         /\ e.is_valid = (results[t][i].status = "PASS")

\* C13: a request that has been answered went through validation to its end,
\* then attempted the write exactly once; a failed write ends in status 500
\* without a response body, a successful one in status 200 with the response
\* computed before the write.
C13_WriteOncePerRequest ==
    \A t \in Callers :
        handler[t].stage = "responded" =>
            /\ pc[t] = "returned"
            /\ handler[t].writes = 1
            /\ handler[t].response.results =
                  portal_report_to_field_results(report[t], portal_json[t])
            /\ IF handler[t].write_failed
               THEN handler[t].status = 500 /\ handler[t].body = None
               ELSE /\ handler[t].status = 200
                    /\ handler[t].body = Optional(handler[t].response)

\* ---------------------------------------------------- severity and status
\* C14: severity follows the origin of a result, never its outcome: a portal
\* FAIL has severity error, a portal PASS (PORTAL_FIELD_OK) severity warning,
\* and the result of a cross-source rule, exception turned into FAIL and
\* SKIP included, the severity configured for the rule; a report whose
\* results are all PASS with severity warning has summary status PASS.
C14_SeverityByOrigin ==
    \A t \in Callers :
        /\ \A i \in 1..Len(results[t]) :
              IF i <= PortalPart(t)
              THEN /\ results[t][i].status = "FAIL" => results[t][i].severity = "error"
                   /\ results[t][i].status = "PASS" =>
                         /\ results[t][i].severity = "warning"
                         /\ results[t][i].rule_id[2] = "OK"
              ELSE results[t][i].severity =
                      Rules_(config)[i - PortalPart(t)].severity
        /\ ( /\ pc[t] = "returned"
             /\ \A i \in 1..Len(report[t].results) :
                   /\ report[t].results[i].status = "PASS"
                   /\ report[t].results[i].severity = "warning" )
           => report[t].summary_status = "PASS"

\* a report with a portal PASS, a portal FAIL, and a rule of severity warning
\* whose result is not PASS
C14_Witness ==
    \E t \in Callers :
        /\ pc[t] = "returned"
        /\ \E i \in 1..PortalPart(t) : report[t].results[i].status = "PASS"
        /\ \E i \in 1..PortalPart(t) : report[t].results[i].status = "FAIL"
        /\ \E i \in (PortalPart(t) + 1)..Len(report[t].results) :
              /\ report[t].results[i].status \in {"FAIL", "SKIP"}
              /\ report[t].results[i].severity = "warning"

KnownKinds ==
    {"equality", "in_set", "regex", "date_within_year", "page_count_between",
     "flags_match"}

\* C15: no result has status WARNING, and the report of a configuration whose
\* rules are all of the six known kinds has summary status PASS or FAIL.
C15_NeverWarning ==
    \A t \in Callers :
        /\ \A i \in 1..Len(results[t]) : results[t][i].status # "WARNING"
        /\ ( /\ pc[t] = "returned"
             /\ \A j \in 1..Len(Rules_(config)) :
                   Rules_(config)[j].rule_type \in KnownKinds )
           => report[t].summary_status \in {"PASS", "FAIL"}

\* a report of known rules only, where a rule of severity warning has failed
C15_Witness ==
    \E t \in Callers :
        /\ pc[t] = "returned"
        /\ \A j \in 1..Len(Rules_(config)) : Rules_(config)[j].rule_type \in KnownKinds
        /\ \E i \in (PortalPart(t) + 1)..Len(report[t].results) :
              /\ report[t].results[i].status = "FAIL"
              /\ report[t].results[i].severity = "warning"
        /\ report[t].summary_status = "FAIL"

\* C16: a field seen with allowed values configured, the empty list
\* included, and a present value that passes the pattern check and is not a
\* member of the list has the result FAIL with PORTAL_FIELD_IN_SET::<field>.
C16_NotAllowedFails ==
    \A t \in Callers :
        \A p \in 1..FieldsSeen(t) :
            LET e == Fields_(config)[p]
                value_str == py_str(portal_json[t][e.name])
            IN  ( /\ ~AbsentOrEmpty(portal_json[t][e.name])
                  /\ ~FailsPattern(e.cfg, value_str)
                  /\ FailsAllowed(e.cfg, value_str) )
                => \E i \in 1..Len(results[t]) :
                      /\ ResultsOf(t, e.name) = {i}
                      /\ results[t][i].rule_id = PortalRuleId("IN_SET", e.name)
                      /\ results[t][i].status = "FAIL"

\* ------------------------------------------------------------ equality rule
\* the result of the rule at position j of t's call
RuleResultAt(t, j) == results[t][PortalPart(t) + j]

\* the value a reference stands for in t's inputs, and its dotted path
ValueOf(t, ref) == resolve_field(ref, portal_json[t], docs_by_type[t]).value
PathOf(ref) ==
    IF ref.source = "portal" THEN <<"portal", ".", ref.field>>
    ELSE <<ref.doc_type.v, ".", ref.field>>

\* s without its leading and trailing blanks
Trim(s) ==
    LET inked == {i \in 1..Len(s) : s[i] # " "}
    IN  IF inked = {} THEN <<>>
        ELSE SubSeq(s, CHOOSE i \in inked : \A j \in inked : i <= j,
                       CHOOSE i \in inked : \A j \in inked : j <= i)

\* rule j of t's call is an equality rule that has been evaluated to its end
EqualityEvaluated(t, j) ==
    /\ Rules_(config)[j].rule_type = "equality"
    /\ ~RuleRaised(t, j)

SomeMissing(t, rule) ==
    ValueOf(t, rule.left.v) = NoneVal \/ ValueOf(t, rule.right.v) = NoneVal

PathsContext(rule) ==
    {[k |-> "left_path", v |-> PathOf(rule.left.v)],
     [k |-> "right_path", v |-> PathOf(rule.right.v)]}

\* C17 as claimed: an equality rule with a missing side gives FAIL, and the
\* context of the result carries both resolved paths and both resolved values.
C17_MissingCarriesPathsAndValues ==
    \A t \in Callers :
        \A j \in 1..RulesApplied(t) :
            LET rule == Rules_(config)[j]
                res == RuleResultAt(t, j)
            IN  (EqualityEvaluated(t, j) /\ SomeMissing(t, rule)) =>
                    /\ res.status = "FAIL"
                    /\ PathsContext(rule) \subseteq res.context
                    /\ \E c \in res.context \ PathsContext(rule) :
                          c.v = py_str(ValueOf(t, rule.left.v))
                    /\ \E c \in res.context \ PathsContext(rule) :
                          c.v = py_str(ValueOf(t, rule.right.v))

\* C17: an equality rule with a missing side, or with both sides missing,
\* gives FAIL and a context of exactly two entries, the resolved paths under
\* left_path and right_path; the context holds no value.
C17_MissingCarriesPaths ==
    \A t \in Callers :
        \A j \in 1..RulesApplied(t) :
            LET rule == Rules_(config)[j]
                res == RuleResultAt(t, j)
            IN  (EqualityEvaluated(t, j) /\ SomeMissing(t, rule)) =>
                    /\ res.status = "FAIL"
                    /\ res.context = PathsContext(rule)

\* an equality rule applied with both sides missing
C17_Witness ==
    \E t \in Callers :
        \E j \in 1..RulesApplied(t) :
            LET rule == Rules_(config)[j]
            IN  /\ EqualityEvaluated(t, j)
                /\ ValueOf(t, rule.left.v) = NoneVal
                /\ ValueOf(t, rule.right.v) = NoneVal
                /\ RuleResultAt(t, j).status = "FAIL"
                /\ RuleResultAt(t, j).context =
                      {[k |-> "left_path", v |-> <<"portal", ".", "cr_number">>],
                       [k |-> "right_path", v |-> <<"moc_certificate", ".", "cr_number">>]}

\* C18: an equality rule with both values present gives PASS iff their string
\* forms are equal once leading and trailing blanks are trimmed, else FAIL,
\* and the context holds the untrimmed string forms under left and right.
C18_TrimmedEquality ==
    \A t \in Callers :
        \A j \in 1..RulesApplied(t) :
            LET rule == Rules_(config)[j]
                res == RuleResultAt(t, j)
            IN  (EqualityEvaluated(t, j) /\ ~SomeMissing(t, rule)) =>
                    LET left == py_str(ValueOf(t, rule.left.v))
                        right == py_str(ValueOf(t, rule.right.v))
                    IN  /\ res.status = IF Trim(left) = Trim(right) THEN "PASS" ELSE "FAIL"
                        /\ res.context = {[k |-> "left", v |-> left],
                                          [k |-> "right", v |-> right]}

\* portal "12" against document " 12 " is PASS
C18_Witness ==
    \E t \in Callers :
        \E j \in 1..RulesApplied(t) :
            /\ EqualityEvaluated(t, j)
            /\ RuleResultAt(t, j).status = "PASS"
            /\ RuleResultAt(t, j).context =
                  {[k |-> "left", v |-> <<"1", "2">>],
                   [k |-> "right", v |-> <<" ", "1", "2", " ">>]}

\* ---------------------------------------------------------------- date rule
\* v is a date in one of the formats %Y-%m-%d, %d/%m/%Y, %d-%m-%Y, %d.%m.%Y
Parsable(v) == \E f \in 1..Len(DateFormats) : strptime_ok(v, DateFormats[f])

\* the year written in a date of one of the four formats
YearOf(v) == TokenValue(IF IsYearToken(v[1]) THEN v[1] ELSE v[5])

DateEvaluated(t, j) ==
    /\ Rules_(config)[j].rule_type = "date_within_year"
    /\ ~RuleRaised(t, j)

\* C19: a date_within_year rule gives FAIL when its target is missing, FAIL
\* when the value is in none of the four formats, and otherwise PASS iff the
\* year of the clock and the year of the date differ by at most yearDelta
\* (0 when not configured), whatever the month and the day.
C19_DateWithinYear ==
    \A t \in Callers :
        \A j \in 1..RulesApplied(t) :
            LET rule == Rules_(config)[j]
                value == ValueOf(t, rule.target.v)
                v == Trim(py_str(value))
                year_delta == IF rule.year_delta.some THEN rule.year_delta.v ELSE 0
                now == now_reads[t][j]
            IN  DateEvaluated(t, j) =>
                    RuleResultAt(t, j).status =
                        IF value = NoneVal THEN "FAIL"
                        ELSE IF ~Parsable(v) THEN "FAIL"
                        ELSE IF /\ now - YearOf(v) <= year_delta
                                /\ YearOf(v) - now <= year_delta
                        THEN "PASS" ELSE "FAIL"

\* 2020-01-01 with yearDelta 1 in the year 2025 is FAIL
C19_Witness ==
    \E t \in Callers :
        \E j \in 1..RulesApplied(t) :
            /\ DateEvaluated(t, j)
            /\ py_str(ValueOf(t, Rules_(config)[j].target.v))
                  = <<"2020", "-", "01", "-", "01">>
            /\ Rules_(config)[j].year_delta = Optional(1)
            /\ now_reads[t][j] = 2025
            /\ RuleResultAt(t, j).status = "FAIL"

\* ---------------------------------------------------------- page count rule
PageCountEvaluated(t, j) ==
    /\ Rules_(config)[j].rule_type = "page_count_between"
    /\ ~RuleRaised(t, j)

\* the count named in the message "<doc_type> has <count> pages ..."
CountInMessage(message, count) ==
    LET digits == int_to_str(count)
    IN  /\ Len(message) >= 3 + Len(digits)
        /\ SubSeq(message, 3, 2 + Len(digits)) = digits
        /\ message[3 + Len(digits)] \in {" pages (within [", " pages (expected between "}

\* the length of the pages list if there is one, else the integer value of
\* page_count, 0 when that is absent or falsy or the document is not supplied
CountByPagesFirst(doc) ==
    IF doc.pages.t = "list" THEN doc.pages.n
    ELSE IF py_truthy(doc.page_count) THEN py_int(doc.page_count) ELSE 0

\* C20: the page count a page_count_between rule works with is the length of
\* the pages list whenever the document has one, an empty list giving 0 even
\* if page_count is set, and otherwise the integer value of page_count, 0
\* when it is absent or falsy or the document type is not supplied.
C20_PagesListFirst ==
    \A t \in Callers :
        \A j \in 1..RulesApplied(t) :
            PageCountEvaluated(t, j) =>
                CountInMessage(RuleResultAt(t, j).message,
                    CountByPagesFirst(get_doc(docs_by_type[t],
                                              Rules_(config)[j].target.v.doc_type.v)))

\* the count the rule has worked with, as its message names it
MessageCount(message) == CHOOSE count \in 0..9 : CountInMessage(message, count)

\* C21: a page_count_between rule with a docType gives PASS iff the count is
\* at least minPages, 0 when not configured, and at most maxPages, unbounded
\* when not configured; a configured maxPages of 0 bounds the count like any
\* other (3 pages with maxPages 0 is FAIL).
C21_ConfiguredBoundsApply ==
    \A t \in Callers :
        \A j \in 1..RulesApplied(t) :
            LET rule == Rules_(config)[j]
                count == MessageCount(RuleResultAt(t, j).message)
                min_pages == IF rule.min_pages.some THEN rule.min_pages.v ELSE 0
            IN  PageCountEvaluated(t, j) =>
                    ( RuleResultAt(t, j).status = "PASS"
                      <=> /\ min_pages <= count
                          /\ rule.max_pages.some => count <= rule.max_pages.v )

\* ---------------------------------------------------------------- flags rule
\* rule j of t's call is a flags_match rule with a docType and a declared
\* list of flags, applied to a document whose namespace is a mapping
FlagsApplied(t, j) ==
    LET rule == Rules_(config)[j]
    IN  /\ rule.rule_type = "flags_match"
        /\ rule.target.some /\ HasDocType(rule.target.v)
        /\ rule.flags.some
        /\ namespace_is_mapping(get_doc(docs_by_type[t], rule.target.v.doc_type.v))

\* the declared flags that differ from the boolean form of the actual value
Mismatches(t, rule) ==
    LET doc == get_doc(docs_by_type[t], rule.target.v.doc_type.v)
        fields == IF doc.fields_kind = "dict" THEN doc.fields ELSE doc.top
    IN  {i \in 1..Len(rule.flags.v) :
            py_truthy(fields[rule.flags.v[i].field]) # rule.flags.v[i].expected}

\* C22: a flags_match rule with a docType gives PASS iff none of its declared
\* flags differs from the boolean form of the actual field value; a rule that
\* declares an empty list of flags has no mismatch and gives PASS.
C22_PassIffNoMismatch ==
    \A t \in Callers :
        \A j \in 1..RulesApplied(t) :
            FlagsApplied(t, j) =>
                ( RuleResultAt(t, j).status = "PASS"
                  <=> Mismatches(t, Rules_(config)[j]) = {} )

\* ----------------------------------------------------------- field resolution
\* the references a rule hands to _resolve_field: left and right of an
\* equality rule, the target of an in_set, regex or date_within_year rule
RefsOf(rule) ==
    IF rule.rule_type = "equality"
    THEN {ref \in {rule.left, rule.right} : ref.some}
    ELSE IF rule.rule_type \in {"in_set", "regex", "date_within_year"}
    THEN {ref \in {rule.target} : ref.some}
    ELSE {}

\* the value a reference stands for: the top-level entry of the portal
\* document, or the entry of the document's fields sub-mapping when it has
\* one and of the whole document otherwise; None for what is absent
ExpectedValue(t, ref) ==
    IF ref.source = "portal" THEN portal_json[t][ref.field]
    ELSE LET doc == get_doc(docs_by_type[t], ref.doc_type.v)
         IN  IF doc.fields_kind = "dict" THEN doc.fields[ref.field]
             ELSE doc.top[ref.field]

\* C23: resolving the references of an applied rule fails only for a doc
\* reference without docType; every other reference resolves, to the value of
\* the field or None, with the path portal.<field> or <docType>.<field>.
C23_ResolutionNeverFails ==
    \A t \in Callers :
        \A j \in 1..RulesApplied(t) :
            \A ref \in RefsOf(Rules_(config)[j]) :
                LET r == resolve_field(ref.v, portal_json[t], docs_by_type[t])
                IN  IF ref.v.source = "doc" /\ ~HasDocType(ref.v)
                    THEN r.kind = "raise"
                    ELSE /\ r.kind = "ok"
                         /\ r.value = ExpectedValue(t, ref.v)
                         /\ r.path = PathOf(ref.v)

====
